---- MODULE Spec2Model ----
(***************************************************************************)
(* The macvlan_noipam network driver: the network / endpoint lifecycle     *)
(* handlers of package driver (CreateNetwork, DeleteNetwork,               *)
(* CreateEndpoint, DeleteEndpoint, Join, Leave) over the host's interface  *)
(* namespace, the in-memory network registry and the persistent store.     *)
(*                                                                         *)
(* Interface names, network ids and modes are strings.  The helpers whose  *)
(* bodies are not part of the handler file (registry accessors, store      *)
(* accessors, netlink link helpers) are modelled from the design document. *)
(***************************************************************************)
EXTENDS Naturals, Sequences, FiniteSets, TLC

VARIABLES
    links,      \* names of the interfaces that exist on the host
    linkOwner,  \* history: the endpoint <<nid, eid>> whose Join created an interface
    networks,   \* d.networks: network id -> network (config and endpoint table)
    store,      \* d.store: the keys <<kind, id>> that hold a persisted record
    pc,         \* per request context: the position inside its handler
    call,       \* per request context: the request being served
    cfg,        \* per request context: the handler's local *configuration / *network
    ret,        \* per request context: what the handler returned
    pre,        \* history: links, networks, store when the request was accepted
    calls,      \* number of requests accepted so far
    limit,      \* number of requests a behaviour may hold (never changes)
    storeFailed \* history: a store operation has returned an error

vars == <<links, linkOwner, networks, store, pc, call, cfg, ret, pre, calls, limit,
          storeFailed>>

-----------------------------------------------------------------------------
(* Bounds of the model *)

\* requests accepted in one behaviour of Spec, of ConcSpec, of InputSpec, of EnvSpec
MaxCalls == 4
MaxConcCalls == 3
MaxInputCalls == 2
MaxEnvCalls == 3
\* stringid.TruncateID keeps this many characters of an id (scaled down)
ShortLen == 2

Procs == {"p1", "p2"}
SerialProcs == {"p1"}
NetIds == {"n1a", "n2b"}
EpIds == {"e1", "e2"}
VethNames == {"vetha", "vethb"}
VlanIds == {"10"}
HostLinks == {"lo", "eth0"}
ParentOptions == {"", "lo", "eth0", "eth0.10", "eth1"}
ModeOptions == {"", "bridge", "private", "vepa", "passthru", "ipvlan"}
MacOptions == {"", "m1"}
Pools == {<<>>, <<"0.0.0.0/0">>, <<"10.0.0.0/8">>, <<"0.0.0.0/0", "10.0.0.0/8">>,
          <<"10.0.0.0/8", "0.0.0.0/0">>}

-----------------------------------------------------------------------------
(* Program constants *)

modePrivate == "private"
modeVepa == "vepa"
modeBridge == "bridge"
modePassthru == "passthru"
parentOpt == "parent"
modeOpt == "_mode"
driverModeOpt == "macvlan" \o modeOpt
vethPrefix == "veth"
containerVethPrefix == "eth"
dummyPrefix == "dm-"

OptionBags ==
    UNION {[K -> ParentOptions \cup ModeOptions] : K \in SUBSET {parentOpt, driverModeOpt}}

\* the option bags a request can carry: a parent under "parent", a mode under
\* "macvlan_mode", either key possibly absent
Options ==
    {o \in OptionBags :
        /\ parentOpt \in DOMAIN o => o[parentOpt] \in ParentOptions \ {""}
        /\ driverModeOpt \in DOMAIN o => o[driverModeOpt] \in ModeOptions \ {""}}

\* the option bags and pool lists of the requests of Spec and ConcSpec
CoreOptions ==
    {o \in Options :
        /\ parentOpt \in DOMAIN o => o[parentOpt] \in {"eth0", "eth0.10"}
        /\ driverModeOpt \in DOMAIN o => o[driverModeOpt] \in {modeVepa}}
CorePools == {<<>>}

-----------------------------------------------------------------------------
(* Return values *)

OK == "nil"
ErrPool == "ipv4 pool is not empty"
ErrMode == "requested macvlan mode is not valid"
ErrLoopback == "loopback interface is not a valid parent link"
ErrConflict == "network is already using parent interface"
ErrBackend == "link operation failed"
ErrLinkExists == "link add failed: file exists"
ErrStore == "store operation failed"
ErrNotFound == "not found"
ErrIfaceName == "error generating an interface name"
Maskable == "maskable: restoring existing network"

\* what a handler hands back: the error (or nil), the name or address of the
\* response, and the failures it only logged
Result(code) == [code |-> code, srcName |-> "", warned |-> {}]

\* a map with no key
EmptyMap == [k \in {} |-> k]
\* m with key k bound to v
MapPut(m, k, v) == [x \in DOMAIN m \cup {k} |-> IF x = k THEN v ELSE m[x]]
\* m without key k
MapDel(m, k) == [x \in DOMAIN m \ {k} |-> m[x]]

NoCall == [op |-> "", nid |-> "", eid |-> "", option |-> EmptyMap,
           pools |-> <<>>, mac |-> ""]
NoCfg == [ID |-> "", Parent |-> "", MacvlanMode |-> "", CreatedSlaveLink |-> FALSE,
          foundExisting |-> FALSE, endpoints |-> EmptyMap]
NoPre == [links |-> {}, linkOwner |-> EmptyMap, networks |-> EmptyMap, store |-> {}]

-----------------------------------------------------------------------------
(* Helpers of the link backend, the registry and the store *)

\* stringid.TruncateID: the id cut to its short form
TruncateID(id) == IF Len(id) > ShortLen THEN SubSeq(id, 1, ShortLen) ELSE id

\* getDummyName: the dummy link's name for a truncated network id
getDummyName(short) == dummyPrefix \o short

\* parentExists: whether an interface of that name exists on the host
parentExists(name) == name \in links

\* the positions of "." in a name
Dots(name) == {i \in 1..Len(name) : SubSeq(name, i, i) = "."}

\* parseVlan: the name reads <base>.<numeric vlan id>
HasVlanForm(name) ==
    \E i \in Dots(name) : i > 1 /\ SubSeq(name, i + 1, Len(name)) \in VlanIds

\* createVlanLink accepts <existing base interface>.<numeric vlan id>
IsVlanName(name) ==
    \E i \in Dots(name) :
        /\ SubSeq(name, 1, i - 1) \in links
        /\ SubSeq(name, i + 1, Len(name)) \in VlanIds

\* the datastore keys of a network record and of an endpoint record
NetworkKey(id) == <<"macvlan", id>>
EndpointKey(eid) == <<"macvlan-endpoint", eid>>

\* d.getNetworks: the registered networks
getNetworks == {[ID |-> id, Parent |-> networks[id].Parent] : id \in DOMAIN networks}

\* d.addNetwork: d.networks[n.id] = n
addNetwork(nets, n) ==
    MapPut(nets, n.ID, [Parent |-> n.Parent, MacvlanMode |-> n.MacvlanMode,
                        CreatedSlaveLink |-> n.CreatedSlaveLink,
                        endpoints |-> EmptyMap])

\* d.deleteNetwork: delete(d.networks, nid)
deleteNetwork(nets, nid) == MapDel(nets, nid)

-----------------------------------------------------------------------------
(* CreateNetwork: the checks made before the registry is consulted *)

\* reject a non null v4 network: only the first descriptor is looked at
IPv4PoolRejected(ipv4) == Len(ipv4) # 0 /\ ipv4[1] # "0.0.0.0/0"

\* parseNetworkOptions / parseNetworkGenericOptions: the labels "parent" and
\* "macvlan_mode" bind to the configuration, an absent label leaves ""
parseNetworkOptions(option) ==
    [Parent |-> IF parentOpt \in DOMAIN option THEN option[parentOpt] ELSE "",
     MacvlanMode |-> IF driverModeOpt \in DOMAIN option THEN option[driverModeOpt] ELSE ""]

\* the switch on config.MacvlanMode: the cases that do not reach default
ValidMode(m) == m \in {"", modeBridge, modePrivate, modePassthru, modeVepa}

\* the switch without the default to bridge mode
verifyModeNoDefault(m) == m

\* the switch on config.MacvlanMode: the mode each case assigns
verifyMode(m) ==
    CASE m \in {"", modeBridge} -> modeBridge
      [] m = modePrivate -> modePrivate
      [] m = modePassthru -> modePassthru
      [] m = modeVepa -> modeVepa
      [] OTHER -> m

\* the handler without the loopback test
IsLoopbackNever(parent) == FALSE

\* loopback is not a valid parent link
IsLoopback(parent) == parent = "lo"

\* if parent interface not specified, use a dummy type link named dummy+net_id
ResolveParent(id, parent) ==
    IF parent = "" THEN getDummyName(TruncateID(id)) ELSE parent

\* the loop without the comparison of the ids: any network on the parent counts
\* as the network being created
ScanOutcomesNoConflict(networkList, config) ==
    IF {nw \in networkList : config.Parent = nw.Parent} = {} THEN {"none"} ELSE {"existing"}

\* the loop never finding the network being created
ScanOutcomesNoReplay(networkList, config) ==
    LET matching == {nw \in networkList : config.Parent = nw.Parent /\ config.ID # nw.ID}
    IN  IF matching = {} THEN {"none"} ELSE {"conflict"}

\* createNetwork's loop over d.getNetworks(): the first network of the list whose
\* parent equals config.Parent decides; the list has no defined order
ScanOutcomes(networkList, config) ==
    LET matching == {nw \in networkList : config.Parent = nw.Parent}
    IN  IF matching = {} THEN {"none"}
        ELSE {IF config.ID # nw.ID THEN "conflict" ELSE "existing" : nw \in matching}

-----------------------------------------------------------------------------
(* Steps shared by the handlers *)

\* a request is accepted by an idle context
Accept(p, c) ==
    /\ pc[p] = "idle"
    /\ calls < limit
    /\ calls' = calls + 1
    /\ limit' = limit
    /\ call' = [call EXCEPT ![p] = c]
    /\ pre' = [pre EXCEPT ![p] = [links |-> links, linkOwner |-> linkOwner,
                                  networks |-> networks, store |-> store]]

\* the handler returns r
Finish(p, r) ==
    /\ pc' = [pc EXCEPT ![p] = "done"]
    /\ ret' = [ret EXCEPT ![p] = r]

Goto(p, label) ==
    /\ pc' = [pc EXCEPT ![p] = label]
    /\ ret' = ret

\* the caller has taken the response; the context is free again
Return(p) ==
    /\ pc[p] = "done"
    /\ pc' = [pc EXCEPT ![p] = "idle"]
    /\ call' = [call EXCEPT ![p] = NoCall]
    /\ cfg' = [cfg EXCEPT ![p] = NoCfg]
    /\ ret' = [ret EXCEPT ![p] = Result("")]
    /\ pre' = [pre EXCEPT ![p] = NoPre]
    /\ UNCHANGED <<links, linkOwner, networks, store, storeFailed, calls, limit>>

\* a deletion that leaves the interface on the host
LinkDelNothing(ls, name) == ls

\* ns.NlHandle().LinkDel(link): an interface leaves the host
LinkDel(ls, name) == ls \ {name}
OwnerDel(own, name) == MapDel(own, name)

-----------------------------------------------------------------------------
(* CreateNetwork *)

\* CreateNetwork up to the call of d.createNetwork, and createNetwork's scan of
\* the registered networks
CreateNetwork(p, id, option, ipv4) ==
    /\ Accept(p, [op |-> "CreateNetwork", nid |-> id, eid |-> "", option |-> option,
                  pools |-> ipv4, mac |-> ""])
    /\ LET parsed == parseNetworkOptions(option)
           config == [ID |-> id,
                      Parent |-> ResolveParent(id, parsed.Parent),
                      MacvlanMode |-> verifyMode(parsed.MacvlanMode),
                      CreatedSlaveLink |-> FALSE,
                      foundExisting |-> FALSE,
                      endpoints |-> EmptyMap]
       IN  IF IPv4PoolRejected(ipv4)
           THEN Finish(p, Result(ErrPool)) /\ cfg' = cfg
           ELSE IF ~ValidMode(parsed.MacvlanMode)
           THEN Finish(p, Result(ErrMode)) /\ cfg' = cfg
           ELSE IF IsLoopback(parsed.Parent)
           THEN Finish(p, Result(ErrLoopback)) /\ cfg' = cfg
           ELSE \E o \in ScanOutcomes(getNetworks, config) :
                    IF o = "conflict"
                    THEN Finish(p, Result(ErrConflict)) /\ cfg' = cfg
                    ELSE /\ Goto(p, "cn_exists")
                         /\ cfg' = [cfg EXCEPT ![p] =
                                [config EXCEPT !.foundExisting = (o = "existing")]]
    /\ UNCHANGED <<links, linkOwner, networks, store, storeFailed>>

\* createNetwork: if !parentExists(config.Parent)
createNetworkParentExists(p) ==
    /\ pc[p] = "cn_exists"
    /\ IF parentExists(cfg[p].Parent) THEN Goto(p, "cn_add") ELSE Goto(p, "cn_link")
    /\ UNCHANGED <<links, linkOwner, networks, store, storeFailed, call, cfg, pre, calls, limit>>

\* the link creation without config.CreatedSlaveLink = true
createNetworkLinkUnflagged(p) ==
    /\ pc[p] = "cn_link"
    /\ LET parent == cfg[p].Parent
           dummyName == getDummyName(TruncateID(cfg[p].ID))
           possible == /\ parent \notin links
                       /\ dummyName = parent \/ IsVlanName(parent)
       IN  \E hostOk \in BOOLEAN :
               IF possible /\ hostOk
               THEN /\ links' = links \cup {parent}
                    /\ cfg' = cfg
                    /\ Goto(p, "cn_add")
               ELSE /\ Finish(p, Result(IF parent \in links THEN ErrLinkExists
                                                            ELSE ErrBackend))
                    /\ UNCHANGED <<links, cfg>>
    /\ UNCHANGED <<linkOwner, networks, store, storeFailed, call, pre, calls, limit>>

\* createNetwork: createDummyLink when the parent is the network's dummy name,
\* createVlanLink otherwise; the link call fails when the name is taken by now,
\* when a vlan name does not parse, or when the host refuses
createNetworkLink(p) ==
    /\ pc[p] = "cn_link"
    /\ LET parent == cfg[p].Parent
           dummyName == getDummyName(TruncateID(cfg[p].ID))
           possible == /\ parent \notin links
                       /\ dummyName = parent \/ IsVlanName(parent)
       IN  \E hostOk \in BOOLEAN :
               IF possible /\ hostOk
               THEN /\ links' = links \cup {parent}
                    /\ cfg' = [cfg EXCEPT ![p].CreatedSlaveLink = TRUE]
                    /\ Goto(p, "cn_add")
               ELSE /\ Finish(p, Result(IF parent \in links THEN ErrLinkExists
                                                            ELSE ErrBackend))
                    /\ UNCHANGED <<links, cfg>>
    /\ UNCHANGED <<linkOwner, networks, store, storeFailed, call, pre, calls, limit>>

\* createNetwork: d.addNetwork(n) unless an existing network was found; then
\* CreateNetwork returns the maskable error for foundExisting
createNetworkAdd(p) ==
    /\ pc[p] = "cn_add"
    /\ IF cfg[p].foundExisting
       THEN /\ Finish(p, Result(Maskable))
            /\ networks' = networks
       ELSE /\ networks' = addNetwork(networks, cfg[p])
            /\ Goto(p, "cn_store")
    /\ UNCHANGED <<links, linkOwner, store, storeFailed, call, cfg, pre, calls, limit>>

\* CreateNetwork: update persistent db
CreateNetworkStore(p) ==
    /\ pc[p] = "cn_store"
    /\ \E stored \in BOOLEAN :
           /\ storeFailed' = (storeFailed \/ ~stored)
           /\ IF stored
              THEN /\ store' = store \cup {NetworkKey(cfg[p].ID)}
                   /\ Finish(p, Result(OK))
              ELSE /\ store' = store
                   /\ Goto(p, "cn_rollback")
    /\ UNCHANGED <<links, linkOwner, networks, call, cfg, pre, calls, limit>>

\* CreateNetwork: rollback on fail, d.deleteNetwork(config.ID)
CreateNetworkRollback(p) ==
    /\ pc[p] = "cn_rollback"
    /\ networks' = deleteNetwork(networks, cfg[p].ID)
    /\ Finish(p, Result(ErrStore))
    /\ UNCHANGED <<links, linkOwner, store, storeFailed, call, cfg, pre, calls, limit>>

-----------------------------------------------------------------------------
(* DeleteNetwork *)

\* DeleteNetwork: n := d.network(req.NetworkID)
DeleteNetwork(p, id) ==
    /\ Accept(p, [op |-> "DeleteNetwork", nid |-> id, eid |-> "", option |-> EmptyMap,
                  pools |-> <<>>, mac |-> ""])
    /\ IF id \notin DOMAIN networks
       THEN Finish(p, Result(ErrNotFound)) /\ cfg' = cfg
       ELSE /\ Goto(p, "dn_link")
            /\ cfg' = [cfg EXCEPT ![p] =
                   [ID |-> id,
                    Parent |-> networks[id].Parent,
                    MacvlanMode |-> networks[id].MacvlanMode,
                    CreatedSlaveLink |-> networks[id].CreatedSlaveLink,
                    foundExisting |-> FALSE,
                    endpoints |-> networks[id].endpoints]]
    /\ UNCHANGED <<links, linkOwner, networks, store, storeFailed>>

\* the deletion without the test of CreatedSlaveLink
DeletesParentUnowned(n) == parentExists(n.Parent)

\* whether DeleteNetwork calls delDummyLink / delVlanLink on the parent
DeletesParent(n) == n.CreatedSlaveLink /\ parentExists(n.Parent)

\* delDummyLink deletes the link named dummy+net_id; delVlanLink deletes a link
\* only when its name parses as iface.vlan_id
DeletableName(n, nid) ==
    n.Parent = getDummyName(TruncateID(nid)) \/ HasVlanForm(n.Parent)

\* DeleteNetwork: if the driver created the slave interface, delete it,
\* otherwise leave it; a failed deletion is logged
DeleteNetworkLink(p) ==
    /\ pc[p] = "dn_link"
    /\ \E hostOk \in BOOLEAN :
           IF DeletesParent(cfg[p]) /\ DeletableName(cfg[p], call[p].nid) /\ hostOk
           THEN /\ links' = LinkDel(links, cfg[p].Parent)
                /\ linkOwner' = OwnerDel(linkOwner, cfg[p].Parent)
           ELSE UNCHANGED <<links, linkOwner>>
    /\ Goto(p, "dn_endpoints")
    /\ UNCHANGED <<networks, store, storeFailed, call, cfg, pre, calls, limit>>

\* DeleteNetwork: for each endpoint, delete its interface when it is found and
\* delete its store record; every failure is logged.  linkFail and storeFail are
\* the endpoints whose LinkDel and whose storeDelete fail
DeleteNetworkEndpoints(p) ==
    /\ pc[p] = "dn_endpoints"
    /\ LET eps == cfg[p].endpoints
       IN  \E linkFail \in SUBSET DOMAIN eps, storeFail \in SUBSET DOMAIN eps :
               LET gone == {eps[e].srcName : e \in DOMAIN eps \ linkFail} \cap links
               IN  /\ links' = links \ gone
                   /\ linkOwner' = [l \in DOMAIN linkOwner \ gone |-> linkOwner[l]]
                   /\ store' = store \ {EndpointKey(e) : e \in DOMAIN eps \ storeFail}
                   /\ storeFailed' = (storeFailed \/ storeFail # {})
    /\ Goto(p, "dn_unregister")
    /\ UNCHANGED <<networks, call, cfg, pre, calls, limit>>

\* DeleteNetwork: delete the *network
DeleteNetworkUnregister(p) ==
    /\ pc[p] = "dn_unregister"
    /\ networks' = deleteNetwork(networks, call[p].nid)
    /\ Goto(p, "dn_store")
    /\ UNCHANGED <<links, linkOwner, store, storeFailed, call, cfg, pre, calls, limit>>

\* DeleteNetwork: delete the network record from persistent cache
DeleteNetworkStore(p) ==
    /\ pc[p] = "dn_store"
    /\ \E deleted \in BOOLEAN :
           /\ storeFailed' = (storeFailed \/ ~deleted)
           /\ IF deleted
              THEN /\ store' = store \ {NetworkKey(cfg[p].ID)}
                   /\ Finish(p, Result(OK))
              ELSE /\ store' = store
                   /\ Finish(p, Result(ErrStore))
    /\ UNCHANGED <<links, linkOwner, networks, call, cfg, pre, calls, limit>>

-----------------------------------------------------------------------------
(* Endpoints.  Network and endpoint ids are non-empty in every request, so   *)
(* validateID lets every request through.                                    *)

\* net.HardwareAddr(req.Interface.MacAddress): the bytes of the string; the
\* conversion of a string, empty or not, is never the nil slice
HardwareAddr(str) == [isNil |-> FALSE, bytes |-> str]

\* netutils.GenerateMACFromIP(nil): a generated locally administered address
GeneratedMACs == {"02:42:gen"}

\* the endpoint's mac: the request's, or a generated one when that is nil
EndpointMACs(str) ==
    IF HardwareAddr(str).isNil THEN GeneratedMACs ELSE {HardwareAddr(str).bytes}

\* n.addEndpoint / n.deleteEndpoint on network nid of the registry
addEndpoint(nets, nid, eid, ep) ==
    [nets EXCEPT ![nid].endpoints = MapPut(@, eid, ep)]
deleteEndpoint(nets, nid, eid) ==
    [nets EXCEPT ![nid].endpoints = MapDel(@, eid)]

Request(op, nid, eid, mac) ==
    [op |-> op, nid |-> nid, eid |-> eid, option |-> EmptyMap, pools |-> <<>>, mac |-> mac]

\* CreateEndpoint: find the network and build the endpoint with its mac
CreateEndpoint(p, nid, eid, mac) ==
    /\ Accept(p, Request("CreateEndpoint", nid, eid, mac))
    /\ IF nid \notin DOMAIN networks
       THEN Finish(p, Result(ErrNotFound)) /\ cfg' = cfg
       ELSE \E m \in EndpointMACs(mac) :
               /\ Goto(p, "ce_store")
               /\ cfg' = [cfg EXCEPT ![p] =
                      [NoCfg EXCEPT !.ID = nid,
                                    !.endpoints = MapPut(EmptyMap, eid,
                                                         [mac |-> m, srcName |-> ""])]]
    /\ UNCHANGED <<links, linkOwner, networks, store, storeFailed>>

\* the handler going on to n.addEndpoint(ep) after a failed d.storeUpdate(ep)
CreateEndpointStoreIgnored(p) ==
    /\ pc[p] = "ce_store"
    /\ \E stored \in BOOLEAN :
           /\ store' = IF stored THEN store \cup {EndpointKey(call[p].eid)} ELSE store
           /\ storeFailed' = (storeFailed \/ ~stored)
           /\ Goto(p, "ce_add")
    /\ UNCHANGED <<links, linkOwner, networks, call, cfg, pre, calls, limit>>

\* CreateEndpoint: d.storeUpdate(ep); a failure is returned to the caller
CreateEndpointStore(p) ==
    /\ pc[p] = "ce_store"
    /\ \E stored \in BOOLEAN :
           /\ storeFailed' = (storeFailed \/ ~stored)
           /\ IF stored
              THEN /\ store' = store \cup {EndpointKey(call[p].eid)}
                   /\ Goto(p, "ce_add")
              ELSE /\ store' = store
                   /\ Finish(p, Result(ErrStore))
    /\ UNCHANGED <<links, linkOwner, networks, call, cfg, pre, calls, limit>>

\* CreateEndpoint: n.addEndpoint(ep), and the response with the endpoint's mac
CreateEndpointAdd(p) ==
    /\ pc[p] = "ce_add"
    /\ LET ep == cfg[p].endpoints[call[p].eid]
       IN  /\ networks' = addEndpoint(networks, call[p].nid, call[p].eid, ep)
           /\ Finish(p, [Result(OK) EXCEPT !.srcName = ep.mac])
    /\ UNCHANGED <<links, linkOwner, store, storeFailed, call, cfg, pre, calls, limit>>

\* the handler returning an error when a deletion failed
DeleteEndpointReturnsStrict(warned) == IF warned = {} THEN OK ELSE ErrBackend

\* DeleteEndpoint: the failures of LinkDel and of storeDelete are logged, the
\* handler returns nil
DeleteEndpointReturns(warned) == OK

\* DeleteEndpoint: delete the interface when it is found, delete the store
\* record, delete the endpoint from the network; failures are logged
DeleteEndpoint(p, nid, eid) ==
    /\ Accept(p, Request("DeleteEndpoint", nid, eid, ""))
    /\ IF nid \notin DOMAIN networks \/ eid \notin DOMAIN networks[nid].endpoints
       THEN /\ Finish(p, Result(ErrNotFound))
            /\ UNCHANGED <<links, linkOwner, networks, store, storeFailed>>
       ELSE LET ep == networks[nid].endpoints[eid]
            IN  \E hostOk \in BOOLEAN, deleted \in BOOLEAN :
                    LET warned == {w \in {"link", "store"} :
                                      \/ w = "link" /\ ep.srcName \in links /\ ~hostOk
                                      \/ w = "store" /\ ~deleted}
                        code == DeleteEndpointReturns(warned)
                    IN  /\ IF ep.srcName \in links /\ hostOk
                           THEN /\ links' = LinkDel(links, ep.srcName)
                                /\ linkOwner' = OwnerDel(linkOwner, ep.srcName)
                           ELSE UNCHANGED <<links, linkOwner>>
                        /\ store' = IF deleted THEN store \ {EndpointKey(eid)} ELSE store
                        /\ storeFailed' = (storeFailed \/ ~deleted)
                        /\ networks' = IF code = OK THEN deleteEndpoint(networks, nid, eid)
                                                    ELSE networks
                        /\ Finish(p, [Result(code) EXCEPT !.warned = warned])
    /\ cfg' = cfg

\* netutils.GenerateIfaceName: a name with the prefix that no interface has
GenerateIfaceName == VethNames \ links

\* createMacVlan: the macvlan slave is added on an existing parent
createMacVlanPossible(parent) == parentExists(parent)

\* Join: generate a name, create the macvlan interface, bind the name to the
\* endpoint, save the endpoint
Join(p, nid, eid) ==
    /\ Accept(p, Request("Join", nid, eid, ""))
    /\ IF nid \notin DOMAIN networks \/ eid \notin DOMAIN networks[nid].endpoints
       THEN /\ Finish(p, Result(ErrNotFound))
            /\ UNCHANGED <<links, linkOwner, networks, store, storeFailed>>
       ELSE \/ /\ Finish(p, Result(ErrIfaceName))
               /\ UNCHANGED <<links, linkOwner, networks, store, storeFailed>>
            \/ /\ GenerateIfaceName # {}
               /\ Finish(p, Result(ErrBackend))
               /\ UNCHANGED <<links, linkOwner, networks, store, storeFailed>>
            \/ \E containerIfName \in GenerateIfaceName, stored \in BOOLEAN :
                   /\ createMacVlanPossible(networks[nid].Parent)
                   /\ links' = links \cup {containerIfName}
                   /\ linkOwner' = MapPut(linkOwner, containerIfName, <<nid, eid>>)
                   /\ networks' = [networks EXCEPT
                                     ![nid].endpoints[eid].srcName = containerIfName]
                   /\ storeFailed' = (storeFailed \/ ~stored)
                   /\ IF stored
                      THEN /\ store' = store \cup {EndpointKey(eid)}
                           /\ Finish(p, [Result(OK) EXCEPT !.srcName = containerIfName])
                      ELSE /\ store' = store
                           /\ Finish(p, Result(ErrStore))
    /\ cfg' = cfg

\* Leave: the network and the endpoint must be known
Leave(p, nid, eid) ==
    /\ Accept(p, Request("Leave", nid, eid, ""))
    /\ IF nid \notin DOMAIN networks \/ eid \notin DOMAIN networks[nid].endpoints
       THEN Finish(p, Result(ErrNotFound))
       ELSE Finish(p, Result(OK))
    /\ UNCHANGED <<links, linkOwner, networks, store, storeFailed, cfg>>

-----------------------------------------------------------------------------
(* Specifications *)

Start ==
    /\ links = HostLinks
    /\ linkOwner = EmptyMap
    /\ networks = EmptyMap
    /\ store = {}
    /\ pc = [p \in Procs |-> "idle"]
    /\ call = [p \in Procs |-> NoCall]
    /\ cfg = [p \in Procs |-> NoCfg]
    /\ ret = [p \in Procs |-> Result("")]
    /\ pre = [p \in Procs |-> NoPre]
    /\ calls = 0
    /\ storeFailed = FALSE

Init == Start /\ limit = MaxCalls
ConcInit == Start /\ limit = MaxConcCalls
InputInit == Start /\ limit = MaxInputCalls
EnvInit == Start /\ limit = MaxEnvCalls

\* the steps of a network request after it was accepted, and its return
NetworkContinue(p) ==
    \/ createNetworkParentExists(p)
    \/ createNetworkLink(p)
    \/ createNetworkAdd(p)
    \/ CreateNetworkStore(p)
    \/ CreateNetworkRollback(p)
    \/ \E id \in NetIds : DeleteNetwork(p, id)
    \/ DeleteNetworkLink(p)
    \/ DeleteNetworkEndpoints(p)
    \/ DeleteNetworkUnregister(p)
    \/ DeleteNetworkStore(p)
    \/ Return(p)

NetworkStep(p) ==
    \/ \E id \in NetIds, option \in CoreOptions, ipv4 \in CorePools :
           CreateNetwork(p, id, option, ipv4)
    \/ NetworkContinue(p)

EndpointStep(p) ==
    \/ \E nid \in NetIds, eid \in EpIds, mac \in MacOptions : CreateEndpoint(p, nid, eid, mac)
    \/ CreateEndpointStore(p)
    \/ CreateEndpointAdd(p)
    \/ \E nid \in NetIds, eid \in EpIds : DeleteEndpoint(p, nid, eid)
    \/ \E nid \in NetIds, eid \in EpIds : Join(p, nid, eid)
    \/ \E nid \in NetIds, eid \in EpIds : Leave(p, nid, eid)

\* every handler, requests served one at a time
Next == \E p \in SerialProcs : NetworkStep(p) \/ EndpointStep(p)

Spec == Init /\ [][Next]_vars

\* network requests served concurrently, their steps interleaved
ConcNext == \E p \in Procs : NetworkStep(p)

ConcSpec == ConcInit /\ [][ConcNext]_vars

\* network requests served one at a time, with every option bag and pool list
InputNext ==
    \E p \in SerialProcs :
        \/ \E id \in NetIds, option \in Options, ipv4 \in Pools :
               CreateNetwork(p, id, option, ipv4)
        \/ NetworkContinue(p)

InputSpec == InputInit /\ [][InputNext]_vars

\* an interface is removed from the host by something other than the driver
HostLinkRemoved(l) ==
    /\ l \in links
    /\ links' = LinkDel(links, l)
    /\ linkOwner' = OwnerDel(linkOwner, l)
    /\ UNCHANGED <<networks, store, storeFailed, pc, call, cfg, ret, pre, calls, limit>>

\* network requests served one at a time on a host whose interfaces, the
\* loopback apart, can be removed out-of-band
EnvNext ==
    \/ \E p \in SerialProcs : NetworkStep(p)
    \/ \E l \in links \ {"lo"} : HostLinkRemoved(l)

EnvSpec == EnvInit /\ [][EnvNext]_vars

-----------------------------------------------------------------------------
(* Vocabulary of the properties *)

\* context p holds the response of a request of kind op
Done(p, op) == pc[p] = "done" /\ call[p].op = op

\* host, registry and store are as they were when p's request was accepted
Untouched(p) ==
    /\ links = pre[p].links
    /\ networks = pre[p].networks
    /\ store = pre[p].store

\* the parent and the mode a CreateNetwork request asks for
ReqParent(c) ==
    LET given == IF "parent" \in DOMAIN c.option THEN c.option["parent"] ELSE ""
    IN  IF given = "" THEN "dm-" \o TruncateID(c.nid) ELSE given
ReqMode(c) ==
    IF "macvlan_mode" \in DOMAIN c.option THEN c.option["macvlan_mode"] ELSE ""
NormalMode(m) == IF m \in {"", "bridge"} THEN "bridge" ELSE m

\* when p's request was accepted, a network other than the request's held its parent
ParentTaken(p) ==
    \E a \in DOMAIN pre[p].networks :
        a # call[p].nid /\ pre[p].networks[a].Parent = ReqParent(call[p])

\* when p's request was accepted, its network was registered with the parent
\* and the mode the request asks for
SameRegistered(p) ==
    /\ call[p].nid \in DOMAIN pre[p].networks
    /\ pre[p].networks[call[p].nid].Parent = ReqParent(call[p])
    /\ pre[p].networks[call[p].nid].MacvlanMode = NormalMode(ReqMode(call[p]))

-----------------------------------------------------------------------------
(* C1 *)

\* C1: a CreateNetwork whose parent is held by a registered network of another
\* id returns an error and leaves host links, registry and store as they were.
C1_ConflictRejected ==
    \A p \in SerialProcs :
        Done(p, "CreateNetwork") /\ ParentTaken(p)
            => /\ ret[p].code \in {ErrPool, ErrMode, ErrLoopback, ErrConflict}
               /\ Untouched(p)

C1_Witness ==
    \E p \in SerialProcs :
        /\ Done(p, "CreateNetwork") /\ ParentTaken(p)
        /\ ret[p].code = ErrConflict

-----------------------------------------------------------------------------
(* C2 *)

\* C2: a CreateNetwork that repeats the (id, parent, mode) of a registered
\* network returns the maskable "existing network" status and changes nothing:
\* there is one link of the parent's name, one registry entry and one persisted
\* record of the id, as after the first call.
C2_ReplayIdempotent ==
    \A p \in SerialProcs :
        Done(p, "CreateNetwork") /\ SameRegistered(p)
            => /\ ret[p].code = Maskable
               /\ Untouched(p)
               /\ ReqParent(call[p]) \in links
               /\ call[p].nid \in DOMAIN networks
               /\ NetworkKey(call[p].nid) \in store

C2_Witness ==
    \E p \in SerialProcs :
        /\ Done(p, "CreateNetwork") /\ SameRegistered(p)
        /\ ret[p].code = Maskable
        /\ pre[p].networks[call[p].nid].CreatedSlaveLink

-----------------------------------------------------------------------------
(* C3 *)

\* C3: while and after DeleteNetwork serves a network registered with
\* CreatedSlaveLink = false, the network's parent link is on the host.
C3_UnownedParentKept ==
    \A p \in SerialProcs :
        /\ pc[p] # "idle" /\ call[p].op = "DeleteNetwork"
        /\ call[p].nid \in DOMAIN pre[p].networks
        /\ ~pre[p].networks[call[p].nid].CreatedSlaveLink
        => pre[p].networks[call[p].nid].Parent \in links

C3_Witness ==
    \E p \in SerialProcs :
        /\ Done(p, "DeleteNetwork") /\ ret[p].code = OK
        /\ call[p].nid \in DOMAIN pre[p].networks
        /\ ~pre[p].networks[call[p].nid].CreatedSlaveLink
        /\ HasVlanForm(pre[p].networks[call[p].nid].Parent)
        /\ pre[p].networks[call[p].nid].Parent \in links
        /\ call[p].nid \notin DOMAIN networks

-----------------------------------------------------------------------------
(* C4 *)

\* C4: no two registered networks of different ids have the same parent, under
\* any interleaving of concurrent CreateNetwork and DeleteNetwork requests.
C4_ParentUnique ==
    \A a \in DOMAIN networks, b \in DOMAIN networks :
        a # b => networks[a].Parent # networks[b].Parent

-----------------------------------------------------------------------------
(* C5 *)

\* the only two requests so far are CreateNetwork requests of p and q for the
\* same id and parent, both accepted before the id was registered, and neither
\* met a store failure or a refusal of the host
RacedCreates(p, q) ==
    /\ p # q /\ calls = 2
    /\ Done(p, "CreateNetwork") /\ Done(q, "CreateNetwork")
    /\ call[p].nid = call[q].nid
    /\ ReqParent(call[p]) = ReqParent(call[q])
    /\ call[p].nid \notin DOMAIN pre[p].networks
    /\ call[q].nid \notin DOMAIN pre[q].networks
    /\ {ret[p].code, ret[q].code} \cap {ErrStore, ErrBackend} = {}

\* C5: of two concurrent CreateNetwork requests for the same id and parent, one
\* inserts the network and returns nil, the other returns the maskable
\* "existing network" status without a second link creation, and the registered
\* CreatedSlaveLink tells whether the driver created the parent link.
C5_SameIdRace ==
    \A p \in Procs, q \in Procs :
        RacedCreates(p, q)
            => /\ {ret[p].code, ret[q].code} = {OK, Maskable}
               /\ call[p].nid \in DOMAIN networks
               /\ networks[call[p].nid].CreatedSlaveLink
                      = (ReqParent(call[p]) \notin HostLinks)

-----------------------------------------------------------------------------
(* C6 *)

\* C6: a CreateNetwork whose pool list holds, at any position, a range other
\* than 0.0.0.0/0 fails and leaves host links, registry and store as they were.
C6_PoolRejected ==
    \A p \in SerialProcs :
        /\ Done(p, "CreateNetwork")
        /\ \E i \in DOMAIN call[p].pools : call[p].pools[i] # "0.0.0.0/0"
        => /\ ret[p].code # OK
           /\ Untouched(p)

-----------------------------------------------------------------------------
(* C7 *)

\* C7: a CreateNetwork that returns nil has registered the network with mode
\* bridge when the requested mode is empty or bridge and with the requested mode
\* when it is private, vepa or passthru; a request with any other mode fails and
\* leaves host links, registry and store as they were; every registered
\* network's mode is one of bridge, private, vepa, passthru.
C7_ModeValidated ==
    /\ \A p \in SerialProcs :
           Done(p, "CreateNetwork")
               => /\ ret[p].code = OK
                      => /\ call[p].nid \in DOMAIN networks
                         /\ networks[call[p].nid].MacvlanMode = NormalMode(ReqMode(call[p]))
                  /\ ReqMode(call[p]) \notin {"", "bridge", "private", "vepa", "passthru"}
                      => /\ ret[p].code \in {ErrPool, ErrMode}
                         /\ Untouched(p)
    /\ \A n \in DOMAIN networks :
           networks[n].MacvlanMode \in {"bridge", "private", "vepa", "passthru"}

C7_Witness ==
    \E p \in SerialProcs :
        /\ Done(p, "CreateNetwork") /\ ret[p].code = OK
        /\ ReqMode(call[p]) = ""
        /\ networks[call[p].nid].MacvlanMode = "bridge"
        /\ \E n \in DOMAIN networks : networks[n].MacvlanMode = "passthru"

-----------------------------------------------------------------------------
(* C8 *)

\* C8: a CreateNetwork with parent "lo" fails and leaves host links, registry
\* and store as they were, and no registered network has parent "lo".
C8_LoopbackRejected ==
    /\ \A p \in SerialProcs :
           /\ Done(p, "CreateNetwork")
           /\ "parent" \in DOMAIN call[p].option
           /\ call[p].option["parent"] = "lo"
           => /\ ret[p].code \in {ErrPool, ErrMode, ErrLoopback}
              /\ Untouched(p)
    /\ \A n \in DOMAIN networks : networks[n].Parent # "lo"

C8_Witness ==
    \E p \in SerialProcs :
        /\ Done(p, "CreateNetwork")
        /\ "parent" \in DOMAIN call[p].option
        /\ call[p].option["parent"] = "lo"
        /\ ret[p].code = ErrLoopback
        /\ networks # EmptyMap

-----------------------------------------------------------------------------
(* C9 *)

\* C9: when CreateNetwork fails to persist the network record, the network is
\* not in the registry and host links, the other networks and the store are as
\* they were before the call: a parent link the call created is removed.
C9_CreateAllOrNothing ==
    \A p \in SerialProcs :
        Done(p, "CreateNetwork") /\ ret[p].code = ErrStore
            => /\ call[p].nid \notin DOMAIN networks
               /\ links = pre[p].links
               /\ store = pre[p].store
               /\ \A n \in DOMAIN pre[p].networks \ {call[p].nid} :
                      n \in DOMAIN networks /\ networks[n] = pre[p].networks[n]

-----------------------------------------------------------------------------
(* C10 *)

\* the interfaces on the host that a Join created for endpoint eid of network nid
JoinLinks(nid, eid) == {l \in DOMAIN linkOwner : linkOwner[l] = <<nid, eid>>}

\* when p's request was accepted, its endpoint was joined
WasJoined(p) ==
    /\ call[p].nid \in DOMAIN pre[p].networks
    /\ call[p].eid \in DOMAIN pre[p].networks[call[p].nid].endpoints
    /\ pre[p].networks[call[p].nid].endpoints[call[p].eid].srcName # ""

\* C10: a Join of an endpoint that is already joined creates no host interface,
\* and when it succeeds it returns the interface the endpoint had; at most one
\* interface created by Join for an endpoint is on the host.
C10_RejoinNoLeak ==
    /\ \A p \in SerialProcs :
           Done(p, "Join") /\ WasJoined(p)
               => /\ links = pre[p].links
                  /\ ret[p].code = OK
                         => ret[p].srcName
                                = pre[p].networks[call[p].nid].endpoints[call[p].eid].srcName
    /\ \A nid \in NetIds, eid \in EpIds : Cardinality(JoinLinks(nid, eid)) <= 1

-----------------------------------------------------------------------------
(* C11 *)

\* p's request names an endpoint that was in its network's map when the request
\* was accepted
KnownEndpoint(p) ==
    /\ call[p].nid \in DOMAIN pre[p].networks
    /\ call[p].eid \in DOMAIN pre[p].networks[call[p].nid].endpoints

\* the endpoint of p's request as it was when the request was accepted
PreEndpoint(p) == pre[p].networks[call[p].nid].endpoints[call[p].eid]

\* when p's request was accepted, its endpoint had been joined once: the only
\* interface a Join created for it is the one bound to it
JoinedOnce(p) ==
    /\ KnownEndpoint(p)
    /\ PreEndpoint(p).srcName # ""
    /\ {l \in DOMAIN pre[p].linkOwner : pre[p].linkOwner[l] = <<call[p].nid, call[p].eid>>}
           = {PreEndpoint(p).srcName}

\* p holds the response of a DeleteEndpoint, none of whose deletions failed, for
\* an endpoint that was created and joined once
RoundTripDone(p) ==
    /\ Done(p, "DeleteEndpoint")
    /\ JoinedOnce(p)
    /\ ret[p].code = OK /\ ret[p].warned = {}

\* C11: after CreateEndpoint, one Join and a DeleteEndpoint whose link and store
\* deletions succeed, no interface created for the endpoint is on the host, the
\* store has no record of the endpoint id and the network's endpoint map has no
\* entry for it.
C11_RoundTrip ==
    \A p \in SerialProcs :
        RoundTripDone(p)
            => /\ PreEndpoint(p).srcName \notin links
               /\ JoinLinks(call[p].nid, call[p].eid) = {}
               /\ EndpointKey(call[p].eid) \notin store
               /\ call[p].eid \notin DOMAIN networks[call[p].nid].endpoints

C11_Witness ==
    \E p \in SerialProcs :
        /\ RoundTripDone(p)
        /\ PreEndpoint(p).srcName \in pre[p].links
        /\ EndpointKey(call[p].eid) \in pre[p].store
        /\ PreEndpoint(p).srcName \notin links

-----------------------------------------------------------------------------
(* C12 *)

\* C12: a CreateEndpoint whose store write fails returns an error and leaves
\* the endpoint maps as they were; while and after CreateEndpoint runs, the
\* endpoint maps differ from what they were only when the endpoint's record is
\* in the store, and a CreateEndpoint that returns nil has both persisted and
\* registered the endpoint.
C12_PersistBeforeRegister ==
    \A p \in SerialProcs :
        pc[p] # "idle" /\ call[p].op = "CreateEndpoint"
            => /\ networks # pre[p].networks
                   => /\ EndpointKey(call[p].eid) \in store
                      /\ Done(p, "CreateEndpoint") /\ ret[p].code = OK
               /\ Done(p, "CreateEndpoint") /\ ret[p].code # OK
                   => networks = pre[p].networks
               /\ Done(p, "CreateEndpoint") /\ ret[p].code = OK
                   => /\ EndpointKey(call[p].eid) \in store
                      /\ call[p].eid \in DOMAIN networks[call[p].nid].endpoints

C12_Witness ==
    \E p \in SerialProcs :
        /\ Done(p, "CreateEndpoint") /\ ret[p].code = ErrStore
        /\ call[p].nid \in DOMAIN networks
        /\ call[p].eid \notin DOMAIN networks[call[p].nid].endpoints
        /\ EndpointKey(call[p].eid) \notin store

-----------------------------------------------------------------------------
(* C13 *)

\* p serves a CreateNetwork for an id that was registered, with the parent the
\* request asks for, when the request was accepted
ReplayOf(p) ==
    /\ pc[p] # "idle" /\ call[p].op = "CreateNetwork"
    /\ call[p].nid \in DOMAIN pre[p].networks
    /\ pre[p].networks[call[p].nid].Parent = ReqParent(call[p])

\* C13: a CreateNetwork for an id already registered with the same parent
\* creates no link on the host, whether or not the parent interface is on the
\* host when the request is served.
C13_ReplaySkipsLink ==
    \A p \in SerialProcs : ReplayOf(p) => ~cfg[p].CreatedSlaveLink

-----------------------------------------------------------------------------
(* C14 *)

\* a step of DeleteNetwork in context p takes the network's parent off the host
ParentRemovedBy(p) ==
    /\ call[p].op = "DeleteNetwork" /\ pc[p] \notin {"idle", "done"}
    /\ cfg[p].Parent \in links
    /\ cfg[p].Parent \notin links'

\* C14: DeleteNetwork removes the driver-owned parent link only after the
\* interfaces of the network's endpoints are removed: no step of DeleteNetwork
\* takes the parent off the host while an interface bound to an endpoint of the
\* network is on the host.
C14_EndpointsBeforeParent ==
    [][\A p \in SerialProcs :
           ParentRemovedBy(p)
               => \A e \in DOMAIN cfg[p].endpoints :
                      cfg[p].endpoints[e].srcName \notin links]_vars

-----------------------------------------------------------------------------
(* C15 *)

\* C15: DeleteNetwork of a registered network returns nil and removes the
\* network from the registry, also when the deletion of the network record
\* from the store fails.
C15_DeleteBestEffort ==
    \A p \in SerialProcs :
        Done(p, "DeleteNetwork") /\ call[p].nid \in DOMAIN pre[p].networks
            => /\ ret[p].code = OK
               /\ call[p].nid \notin DOMAIN networks

-----------------------------------------------------------------------------
(* C16 *)

\* C16: a Join that returns an error has left no interface of its own on the
\* host and has left the endpoint's srcName as it was.
C16_JoinStrict ==
    \A p \in SerialProcs :
        Done(p, "Join") /\ ret[p].code # OK
            => /\ links = pre[p].links
               /\ networks = pre[p].networks

-----------------------------------------------------------------------------
(* C17 *)

\* the network a CreateNetwork of p that returned nil has registered: its
\* CreatedSlaveLink tells whether the parent was missing from the host when the
\* request was accepted, in which case the call created it
FlagAccurate(p) ==
    /\ call[p].nid \in DOMAIN networks
    /\ networks[call[p].nid].Parent = ReqParent(call[p])
    /\ networks[call[p].nid].CreatedSlaveLink = (ReqParent(call[p]) \notin pre[p].links)
    /\ ReqParent(call[p]) \in links
    /\ "parent" \notin DOMAIN call[p].option /\ ReqParent(call[p]) \notin pre[p].links
           => /\ networks[call[p].nid].Parent = "dm-" \o TruncateID(call[p].nid)
              /\ networks[call[p].nid].CreatedSlaveLink
              /\ ReqMode(call[p]) = "" => networks[call[p].nid].MacvlanMode = "bridge"

\* a registered network's CreatedSlaveLink changes only when a CreateNetwork
\* for its id registers it anew
FlagKept ==
    \A n \in DOMAIN networks \cap DOMAIN networks' :
        networks'[n].CreatedSlaveLink # networks[n].CreatedSlaveLink
            => \E p \in SerialProcs : pc[p] = "cn_add" /\ cfg[p].ID = n

\* C17: a registered network's CreatedSlaveLink is true exactly when the
\* CreateNetwork that registered it created the parent link, and false exactly
\* when the parent was on the host before; with no parent given and no dummy
\* link on the host the network gets the dummy name of its truncated id as
\* parent, mode bridge when no mode is given, and CreatedSlaveLink = true.
C17_OwnershipFlag ==
    /\ [](\A p \in SerialProcs :
             Done(p, "CreateNetwork") /\ ret[p].code = OK => FlagAccurate(p))
    /\ [][FlagKept]_vars

C17_Witness ==
    \E p \in SerialProcs :
        /\ Done(p, "CreateNetwork") /\ ret[p].code = OK
        /\ "parent" \notin DOMAIN call[p].option
        /\ ReqMode(call[p]) = ""
        /\ networks[call[p].nid].CreatedSlaveLink
        /\ networks[call[p].nid].MacvlanMode = "bridge"
        /\ \E n \in DOMAIN networks : ~networks[n].CreatedSlaveLink

-----------------------------------------------------------------------------
(* C18 *)

\* C18: no two distinct endpoints of a registered network have the same
\* (non-empty) MAC address: a CreateEndpoint with the MAC of another endpoint of
\* the network is not registered.
C18_MacUnique ==
    /\ \A n \in DOMAIN networks :
           \A a \in DOMAIN networks[n].endpoints, b \in DOMAIN networks[n].endpoints :
               a # b /\ networks[n].endpoints[a].mac # ""
                   => networks[n].endpoints[a].mac # networks[n].endpoints[b].mac
    /\ \A p \in SerialProcs :
           /\ Done(p, "CreateEndpoint") /\ call[p].mac # ""
           /\ call[p].nid \in DOMAIN pre[p].networks
           /\ \E b \in DOMAIN pre[p].networks[call[p].nid].endpoints \ {call[p].eid} :
                  pre[p].networks[call[p].nid].endpoints[b].mac = call[p].mac
           => ret[p].code # OK

-----------------------------------------------------------------------------
(* C19 *)

\* C19: a CreateEndpoint that returns nil has registered the endpoint with a
\* non-empty MAC address, the request's when the request carries one, and the
\* response carries that address.
C19_MacAssigned ==
    \A p \in SerialProcs :
        Done(p, "CreateEndpoint") /\ ret[p].code = OK
            => LET ep == networks[call[p].nid].endpoints[call[p].eid]
               IN  /\ ep.mac # ""
                   /\ call[p].mac # "" => ep.mac = call[p].mac
                   /\ ret[p].srcName = ep.mac

-----------------------------------------------------------------------------
(* C20 *)

\* C20: DeleteEndpoint of an endpoint that is in its registered network's map
\* returns nil and removes the endpoint from the map, also when the deletion of
\* its interface or of its store record fails; for an unknown network id or
\* endpoint id it returns the not-found error and changes nothing.
C20_DeleteEndpointBestEffort ==
    \A p \in SerialProcs :
        Done(p, "DeleteEndpoint")
            => IF KnownEndpoint(p)
               THEN /\ ret[p].code = OK
                    /\ call[p].eid \notin DOMAIN networks[call[p].nid].endpoints
               ELSE /\ ret[p].code = ErrNotFound
                    /\ Untouched(p)

C20_Witness ==
    \E p \in SerialProcs :
        /\ Done(p, "DeleteEndpoint") /\ KnownEndpoint(p)
        /\ ret[p].code = OK /\ ret[p].warned = {"link", "store"}
        /\ PreEndpoint(p).srcName \in links
        /\ EndpointKey(call[p].eid) \in store
        /\ call[p].eid \notin DOMAIN networks[call[p].nid].endpoints

-----------------------------------------------------------------------------
(* C21 *)

\* the network ids and the endpoint ids that have a record in the store
StoredNetworks == {n \in NetIds : NetworkKey(n) \in store}
StoredEndpoints == {e \in EpIds : EndpointKey(e) \in store}

\* the endpoint ids in the endpoint maps of the registered networks
RegisteredEndpoints == UNION {DOMAIN networks[n].endpoints : n \in DOMAIN networks}

\* no request is being served and no store operation has failed so far
Quiescent == (\A p \in Procs : pc[p] = "idle") /\ ~storeFailed

\* C21: whenever no request is in progress and no store operation has failed,
\* the network ids with a persisted record are the ids of the registry and the
\* persisted endpoint records are those of the endpoints in the endpoint maps
\* of the registered networks.
C21_StoreMirrorsRegistry ==
    Quiescent
        => /\ StoredNetworks = DOMAIN networks
           /\ StoredEndpoints = RegisteredEndpoints
====
